---------------------------- MODULE Spec2Model ----------------------------
(***************************************************************************)
(* The WASH / GDP dashboard of click_slider_map.py as a state machine.     *)
(*                                                                         *)
(* State: the loaded dataset, the four per-topic tables of `issue`, the    *)
(* values of the five callback inputs (issue / service_level /             *)
(* residence_type dropdowns, year-range slider, the map's clickData) and   *)
(* the outcome of the last invocation of each of the two callbacks, with   *)
(* the arguments of that invocation.                                       *)
(*                                                                         *)
(* Cells of a table are tagged records so that a float, a NaN and a string *)
(* can share a column: [num |-> n], [nan |-> TRUE], [neginf |-> TRUE],     *)
(* [log10 |-> n] (the irrational log10 of an n that is no power of ten)    *)
(* and [str |-> s].  Python's None is the string "None" for a dropdown     *)
(* value and the record [none |-> TRUE] for clickData.                     *)
(***************************************************************************)
EXTENDS Integers, Sequences, FiniteSets, TLC

VARIABLES data, issue, issue_value, service_level, residence_type,
          year_range, clickData, map_fig, line_fig, map_arg, line_args, loaded

vars == <<data, issue, issue_value, service_level, residence_type,
          year_range, clickData, map_fig, line_fig, map_arg, line_args, loaded>>

---------------------------------------------------------------------------
(* Bounds of the model *)

\* each slider handle is explored up to this many steps outwards of its
\* initial value
SliderReach == 1

---------------------------------------------------------------------------
(* Cells and strings *)

Num(n) == [num |-> n]
Str(s) == [str |-> s]
NaN == [nan |-> TRUE]
NegInf == [neginf |-> TRUE]
IsNum(c) == DOMAIN c = {"num"}

None == "None"
NoClick == [none |-> TRUE]

\* Python `t in s` on strings
Contains(t, s) ==
    \E i \in 1..(Len(s) - Len(t) + 1) : SubSeq(s, i, i + Len(t) - 1) = t

\* Python s.endswith(t)
EndsWith(s, t) ==
    Len(t) <= Len(s) /\ SubSeq(s, Len(s) - Len(t) + 1, Len(s)) = t

SeqToSet(s) == {s[i] : i \in 1..Len(s)}

Min(a, b) == IF a <= b THEN a ELSE b

\* the element of a one-element set; Only({e(x) : x \in {v}}) is e(v) with v
\* evaluated once
Only(S) == CHOOSE x \in S : TRUE

---------------------------------------------------------------------------
(* The dataset, household_data.csv: one row per (country, year).  The file *)
(* is not part of the sources; the columns follow the naming convention    *)
(* {domain}_{service token}_{residence suffix} that the code filters on.   *)

DataColumns ==
    <<"iso3", "year", "country", "gdp",
      "wat_bas_n", "wat_bas_u", "wat_lim_r", "wat_sm_n",
      "wat_pip_n", "wat_npip_n", "wat_npip_u",
      "san_bas_n", "san_od_r", "san_sm_u", "san_sew_n", "san_sew_sm_n",
      "san_sdo_sm_n",
      "hyg_bas_n", "hyg_nfac_n", "hyg_lim_u">>

CountryName(iso) == IF iso = "USA" THEN "United States" ELSE "Kenya"

\* the (country, year) observations present in the file
DataKeys ==
    <<<<"USA", 2003>>, <<"USA", 2004>>, <<"KEN", 2004>>, <<"USA", 2005>>,
      <<"USA", 2015>>, <<"USA", 2016>>, <<"KEN", 2017>>>>

GdpOf(iso, year) ==
    CASE iso = "USA" /\ year = 2003 -> Num(100000000)
      [] iso = "USA" /\ year = 2005 -> Num(1000000000)
      [] iso = "USA" /\ year = 2004 -> Num(1250000000)
      [] iso = "USA" /\ year = 2015 -> NaN
      [] iso = "KEN" /\ year = 2004 -> Num(0)
      [] iso = "KEN" /\ year = 2017 -> Num(1500)
      [] OTHER -> Num(1000)

ColumnIndex(col) == CHOOSE i \in 1..Len(DataColumns) : DataColumns[i] = col

\* a coverage percentage, missing for some observations
CoverageOf(iso, year, col) ==
    IF (year + ColumnIndex(col)) % 5 = 0
    THEN NaN
    ELSE Num((year * 7 + ColumnIndex(col) * 13 + Len(iso) + Len(CountryName(iso))) % 101)

DataRow(iso, year) ==
    [col \in SeqToSet(DataColumns) |->
        CASE col = "iso3" -> Str(iso)
          [] col = "year" -> Num(year)
          [] col = "country" -> Str(CountryName(iso))
          [] col = "gdp" -> GdpOf(iso, year)
          [] OTHER -> CoverageOf(iso, year, col)]

\* pd.read_csv("household_data.csv")
LoadData ==
    [columns |-> DataColumns,
     rows |-> [i \in 1..Len(DataKeys) |-> DataRow(DataKeys[i][1], DataKeys[i][2])],
     owner |-> "shared"]

---------------------------------------------------------------------------
(* DataFrame operations *)

\* df[cols]: a new frame with the listed columns, in the listed order
Project(df, cols) ==
    [columns |-> cols,
     rows |-> [i \in 1..Len(df.rows) |-> [c \in SeqToSet(cols) |-> df.rows[i][c]]],
     owner |-> "private"]

\* df[col] = values, in place: a new column is appended, an existing one is
\* overwritten
SetColumn(df, col, values) ==
    [columns |-> IF col \in SeqToSet(df.columns) THEN df.columns
                 ELSE Append(df.columns, col),
     rows |-> [i \in 1..Len(df.rows) |->
                 [c \in SeqToSet(df.columns) \cup {col} |->
                     IF c = col THEN values[i] ELSE df.rows[i][c]]],
     owner |-> df.owner]

Column(df, col) == [i \in 1..Len(df.rows) |-> df.rows[i][col]]

\* a faulty variant of copy: the callback works on the shared table itself
copy_alias(df) == df

\* df.copy(): a private deep copy
copy(df) == [df EXCEPT !.owner = "private"]

\* data.filter(regex=..., axis=1): the columns re.search finds an alternative in
FilterRegex(df, alternatives) ==
    Project(df, SelectSeq(df.columns,
                          LAMBDA c : \E a \in alternatives : Contains(a, c)))

Topics == {"water", "sanitation", "hygiene", "gdp"}

TopicPattern(topic) ==
    CASE topic = "water" -> {"wat", "iso3", "year", "country"}
      [] topic = "sanitation" -> {"san", "iso3", "year", "country"}
      [] topic = "hygiene" -> {"hyg", "iso3", "year", "country"}
      [] topic = "gdp" -> {"gdp", "iso3", "year", "country"}

TopicTitle(topic) ==
    CASE topic = "water" -> "Water"
      [] topic = "sanitation" -> "Sanitation"
      [] topic = "hygiene" -> "Hygiene"
      [] topic = "gdp" -> "GDP"

TopicColors(topic) ==
    CASE topic = "water" -> "Blues"
      [] topic = "sanitation" -> "Purples"
      [] topic = "hygiene" -> "RedOr"
      [] topic = "gdp" -> "Greens"

\* the `issue` dict built at load from the dataset
LoadIssue(d) ==
    [topic \in Topics |->
        [df |-> [FilterRegex(d, TopicPattern(topic)) EXCEPT !.owner = "shared"],
         title |-> TopicTitle(topic),
         colors |-> TopicColors(topic)]]


---------------------------------------------------------------------------
(* millify(n, precision) of the millify package and try_millify *)

RECURSIVE Pow10(_)
Pow10(k) == IF k = 0 THEN 1 ELSE 10 * Pow10(k - 1)

RECURSIVE FloorLog10(_)
FloorLog10(n) == IF n < 10 THEN 0 ELSE 1 + FloorLog10(n \div 10)

IsPow10(n) == n >= 1 /\ Pow10(FloorLog10(n)) = n

Abs(n) == IF n < 0 THEN 0 - n ELSE n

millnames == <<"", "k", "M", "B", "T", "P", "E", "Z", "Y">>

RECURSIVE DigitsStr(_, _)
DigitsStr(v, width) ==
    IF width = 0 THEN "" ELSE DigitsStr(v \div 10, width - 1) \o ToString(v % 10)

\* the fraction digits of a nonzero v, trailing zeros dropped
RECURSIVE StripZeros(_, _)
StripZeros(v, width) ==
    IF v % 10 = 0 THEN StripZeros(v \div 10, width - 1) ELSE DigitsStr(v, width)

Raised == [raised |-> "ValueError"]

\* float(n) fails on a non-number, math.floor on a NaN, the format on a
\* negative precision
MillifyFails(x, precision) == ~IsNum(x) \/ precision < 0

\* '{:.{precision}f}'.format(n / 10**(3 * millidx)), trailing zeros removed,
\* then the magnitude's name
millify(x, precision) ==
    IF MillifyFails(x, precision) THEN Raised
    ELSE LET n == Abs(x.num)
             millidx == Min(Len(millnames) - 1, FloorLog10(n) \div 3)
             d == Pow10(3 * millidx)
             p == Pow10(precision)
             whole == n \div d
             rem == n % d
             q == d \div p
             frac == IF d <= p THEN rem * (p \div d) ELSE rem \div q
             r2 == IF d <= p THEN 0 ELSE rem % q
             up == IF d > p /\ (2 * r2 > q \/ (2 * r2 = q /\ frac % 2 = 1))
                   THEN 1 ELSE 0
             total == whole * p + frac + up
             sign == IF x.num < 0 /\ total > 0 THEN "-" ELSE ""
         IN Str(sign \o ToString(total \div p)
                \o (IF total % p = 0 THEN ""
                    ELSE "." \o StripZeros(total % p, precision))
                \o millnames[millidx + 1])

\* a faulty variant of try_millify: no except clause
try_millify_uncaught(x, precision) == millify(x, precision)

try_millify(x, precision) ==
    IF millify(x, precision) = Raised THEN x ELSE millify(x, precision)

\* np.log10
log10(x) ==
    CASE ~IsNum(x) -> NaN
      [] x.num < 0 -> NaN
      [] x.num = 0 -> NegInf
      [] IsPow10(x.num) -> Num(FloorLog10(x.num))
      [] OTHER -> [log10 |-> x.num]

---------------------------------------------------------------------------
(* make_map *)

Fault(error, line) == [kind |-> "fault", error |-> error, line |-> line]

\* a faulty variant of DisplayColumn: the display copy is taken after the logarithm
DisplayColumn_afterLog(df, val) ==
    [i \in 1..Len(df.rows) |->
        try_millify(IF val = "gdp" THEN log10(df.rows[i][val]) ELSE df.rows[i][val], 5)]

\* issue_df[val].map(lambda x: try_millify(x, precision=5))
DisplayColumn(df, val) ==
    [i \in 1..Len(df.rows) |-> try_millify(df.rows[i][val], 5)]

\* if val == 'gdp': issue_df[val] = issue_df[val].map(lambda x: np.log10(x))
ColorColumn(df, val) ==
    IF val = "gdp"
    THEN [i \in 1..Len(df.rows) |-> log10(df.rows[i][val])]
    ELSE Column(df, val)

Choropleth(df, val, title, context, colors, value) ==
    [kind |-> "choropleth",
     locations |-> Column(df, "iso3"),
     color |-> val,
     z |-> Column(df, val),
     hover_name |-> Column(df, "country"),
     colorscale |-> colors,
     label |-> title \o " " \o context,
     customdata |-> [i \in 1..Len(df.rows) |->
                       <<df.rows[i]["country"], df.rows[i][val],
                         df.rows[i][val \o " "], df.rows[i]["iso3"]>>],
     title |-> "World " \o title \o " Coverage Map",
     \* the customdata entry the hover text shows as the value: the colour
     \* value by default, the display copy with the gdp hovertemplate
     hover_value |-> IF value = "gdp" THEN 3 ELSE 2,
     tickvals |-> IF value = "gdp" THEN <<8, 9, 10, 11, 12, 13>> ELSE <<>>,
     ticktext |-> IF value = "gdp"
                  THEN <<"100M", "1B", "10B", "100B", "1T", "10T">> ELSE <<>>]

\* the figure make_map(value) returns (or the exception it raises) and the
\* `issue` tables after the call
make_map(tables, value) ==
    IF value \notin DOMAIN tables
    THEN [fig |-> Fault("KeyError", 199), tables |-> tables]
    ELSE LET params == tables[value]
             issue_df == copy(params.df)
             val == issue_df.columns[4]
             shown == DisplayColumn(issue_df, val)
             df1 == SetColumn(issue_df, val \o " ", shown)
             df2 == SetColumn(df1, val, ColorColumn(df1, val))
             context == IF value # "gdp" THEN "Cov.%" ELSE "$"
             after == IF issue_df.owner = "shared"
                      THEN [tables EXCEPT ![value].df = df2]
                      ELSE tables
         IN IF \E i \in 1..Len(shown) : shown[i] = Raised
            THEN [fig |-> Fault("ValueError", 206),
                  tables |-> IF issue_df.owner = "shared"
                             THEN [tables EXCEPT ![value].df = issue_df]
                             ELSE tables]
            ELSE [fig |-> Choropleth(df2, val, params.title, context,
                                     params.colors, value),
                  tables |-> after]

\* the map figure built at import, before any callback has run
InitialMap ==
    [kind |-> "choropleth",
     locations |-> Column(LoadData, "iso3"),
     color |-> "wat_bas_n",
     z |-> Column(LoadData, "wat_bas_n"),
     hover_name |-> Column(LoadData, "country"),
     colorscale |-> "Blues",
     label |-> "wat_bas_n",
     customdata |-> <<>>,
     title |-> "World Water Coverage by Country",
     hover_value |-> 2,
     tickvals |-> <<>>,
     ticktext |-> <<>>]

---------------------------------------------------------------------------
(* The service-level taxonomy *)

ServiceLevels == {"baseline", "available", "infrastructure"}

services(ser_lev) ==
    CASE ser_lev = "baseline" -> <<"bas", "lim", "unimp", "sur", "nfac", "od">>
      [] ser_lev = "available" ->
            <<"sm", "premises", "available", "quality", "sdo_sm", "fst_sm", "sew_sm">>
      [] ser_lev = "infrastructure" -> <<"pip", "npip", "lat", "sep", "sew">>

\* the dict, in insertion order
service_map ==
    <<<<"bas", "Basic">>, <<"lim", "Limited">>, <<"unimp", "Unimproved">>,
      <<"sur", "Surface water">>, <<"nfac", "No facility">>,
      <<"od", "Open defecation">>, <<"sm", "Safe management">>,
      <<"premises", "On premises">>, <<"available", "Available when needed">>,
      <<"quality", "Free from contamination">>, <<"sdo_sm", "Disposed of">>,
      <<"fst_sm", "Emptied and treated">>, <<"sew", "Sewerage system">>,
      <<"sew_sm", "Waste water treated">>, <<"pip", "Piped">>,
      <<"npip", "Non-piped">>, <<"lat", "Latrine">>, <<"sep", "Septic tank">>>>

ResidenceTypes == {"_n", "_u", "_r"}

---------------------------------------------------------------------------
(* update_line_chart *)

\* any([x in col for x in serv])
ContainsAny(serv, col) == \E i \in 1..Len(serv) : Contains(serv[i], col)

\* a faulty variant of KeepColumn: either condition is enough
KeepColumn_either(col, serv, res_type) ==
    ContainsAny(serv, col) \/ EndsWith(col, res_type)

\* any([x in col for x in serv]) and col.endswith(res_type)
KeepColumn(col, serv, res_type) ==
    ContainsAny(serv, col) /\ EndsWith(col, res_type)

fil_cols(columns, serv, res_type) ==
    <<"iso3", "year", "country">>
        \o SelectSeq(columns, LAMBDA col : KeepColumn(col, serv, res_type))

\* a faulty variant of new_dict_entry: the first matching key is kept
RECURSIVE new_dict_entry_first(_, _, _)
new_dict_entry_first(string, k, entry) ==
    IF k > Len(service_map) THEN entry
    ELSE new_dict_entry_first(string, k + 1,
            IF Contains(service_map[k][1], string) /\ entry = string
            THEN service_map[k][2] ELSE entry)

\* new_dict[string] after the keys k.. of service_map have been visited, entry
\* being its value so far (the column's own name while it has no entry): every
\* key found in the string stores its label, replacing an earlier one
RECURSIVE new_dict_entry(_, _, _)
new_dict_entry(string, k, entry) ==
    IF k > Len(service_map) THEN entry
    ELSE new_dict_entry(string, k + 1,
            IF Contains(service_map[k][1], string)
            THEN service_map[k][2] ELSE entry)

Renamed(df, new_dict) ==
    [columns |-> [i \in 1..Len(df.columns) |-> new_dict[df.columns[i]]],
     rows |-> [i \in 1..Len(df.rows) |->
                 [n \in {new_dict[c] : c \in SeqToSet(df.columns)} |->
                     df.rows[i][CHOOSE c \in SeqToSet(df.columns) : new_dict[c] = n]]],
     owner |-> "private"]

\* new_dict = {string: service_map[key] for string in filtered_df.columns
\*             for key in service_map.keys() if key in string}
\* filtered_df = filtered_df.rename(columns=new_dict)
rename(df) ==
    Only({Renamed(df, new_dict) :
            new_dict \in {[c \in SeqToSet(df.columns) |-> new_dict_entry(c, 1, c)]}})

\* a faulty variant of InYears: the upper bound is exclusive
InYears_exclusive(year, year_input) ==
    year.num >= year_input[1] /\ year.num < year_input[2]

\* (filtered_df['year'] >= year_input[0]) & (filtered_df['year'] <= year_input[1])
InYears(year, year_input) ==
    year.num >= year_input[1] /\ year.num <= year_input[2]

\* line_df["iso3"] == location
IsLocation(iso3, location) == iso3 = Str(location)

\* a faulty variant of Visibility: every trace stays visible
Visibility_all(name, first) == "true"

\* trace.update(visible='legendonly') if trace.name != filtered_df.columns[3]
Visibility(name, first) == IF name # first THEN "legendonly" ELSE "true"

\* px.line(filtered_df, x="year", y=filtered_df.columns[3:]) and the for_each_trace
\* that follows: one trace per value column
Traces(df) ==
    [k \in 1..(Len(df.columns) - 3) |->
        [name |-> df.columns[k + 3],
         x |-> Column(df, "year"),
         y |-> Column(df, df.columns[k + 3]),
         visible |-> Visibility(df.columns[k + 3], df.columns[4])]]

\* a faulty variant of TitleCountry: an empty selection gets an empty title
TitleCountry_default(df) ==
    IF Len(df.rows) = 0 THEN Str("") ELSE df.rows[1]["country"]

\* filtered_df['country'].iloc[0]: an IndexError on an empty frame
TitleCountry(df) ==
    IF Len(df.rows) = 0 THEN Raised ELSE df.rows[1]["country"]

EmptyFigure == [kind |-> "empty"]

Populated(df, source_columns, iss, title) ==
    [kind |-> "populated",
     title |-> TitleCountry(df).str \o " -- Year by Year",
     xaxis_title |-> "Year",
     yaxis_title |-> IF iss # "gdp" THEN title \o " Coverage (%)" ELSE "value",
     traces |-> Traces(df),
     frame |-> [columns |-> df.columns, rows |-> df.rows],
     source_columns |-> source_columns]

\* the branch taken when click_data is truthy.  With no value column left
\* px.line is given an empty list of columns and either raises or returns a
\* figure without traces.
Selection(line_df, click_data, iss, title, year_input) ==
    LET location == click_data.points[1].location
        of_country == [columns |-> line_df.columns,
                       rows |-> SelectSeq(line_df.rows,
                                   LAMBDA r : IsLocation(r["iso3"], location)),
                       owner |-> "private"]
        renamed == rename(of_country)
        filtered_df == [renamed EXCEPT !.rows =
                           SelectSeq(renamed.rows,
                                     LAMBDA r : InYears(r["year"], year_input))]
    IN (IF Len(filtered_df.columns) = 3 THEN {Fault("ValueError", 301)} ELSE {})
       \cup
       {IF TitleCountry(filtered_df) = Raised
        THEN Fault("IndexError", 310)
        ELSE Populated(filtered_df, line_df.columns, iss, title)}

\* the outcomes update_line_chart can have: a figure, or the exception raised
update_line_chart(tables, click_data, iss, ser_lev, res_type, year_input) ==
    IF iss \notin DOMAIN tables THEN {Fault("KeyError", 278)}
    ELSE IF ser_lev \notin ServiceLevels THEN {Fault("KeyError", 283)}
    ELSE LET selected == tables[iss]
             copied == copy(selected.df)
             serv == services(ser_lev)
         IN IF iss # "gdp" /\ res_type = None
               /\ \E col \in SeqToSet(copied.columns) : ContainsAny(serv, col)
            THEN {Fault("TypeError", 286)}
            ELSE LET line_df == IF iss # "gdp"
                                THEN Project(copied,
                                             fil_cols(copied.columns, serv, res_type))
                                ELSE copied
                 IN IF click_data # NoClick
                    THEN Selection(line_df, click_data, iss, selected.title, year_input)
                    ELSE {EmptyFigure}

---------------------------------------------------------------------------
(* The page: its components' initial properties and the reactive binding *)

\* dcc.RangeSlider(min=2000, max=2020, step=1, value=[2005, 2015])
SliderMin == 2000
SliderMax == 2020
InitialLow == 2005
InitialHigh == 2015

LowValues == {y \in SliderMin..InitialLow : InitialLow - y <= SliderReach}
HighValues == {y \in InitialHigh..SliderMax : y - InitialHigh <= SliderReach}

\* the slider's value is a pair low <= high
YearRanges == {v \in LowValues \X HighValues : v[1] <= v[2]}

Click(location) == [points |-> <<[location |-> location]>>]

\* a faulty variant of InitialClickData: the map starts without click data
InitialClickData_absent == NoClick

\* dcc.Graph(id="map", clickData={"points": [{"location": "USA"}]})
InitialClickData == Click("USA")

\* a dropdown holds one of its options, or None once it has been cleared
IssueValues == Topics \cup {None}
ServiceLevelValues == ServiceLevels \cup {None}
ResidenceTypeValues == ResidenceTypes \cup {None}

\* the regions the choropleth draws, and so the locations a click can report
Locations == {DataKeys[i][1] : i \in 1..Len(DataKeys)}

NotCalled == [called |-> FALSE]

\* the argument of a make_map invocation, and whether make_map('gdp') had
\* already run before it
MapArg(value, before) ==
    [value |-> value,
     gdp_before |-> before # NotCalled /\ (before.value = "gdp" \/ before.gdp_before)]

LineArgs(click_data, iss, ser_lev, res_type, year_input) ==
    [click_data |-> click_data, iss |-> iss, ser_lev |-> ser_lev,
     res_type |-> res_type, year_input |-> year_input]

Init ==
    /\ data = LoadData
    /\ issue = LoadIssue(LoadData)
    /\ issue_value = "water"
    /\ service_level = "baseline"
    /\ residence_type = "_n"
    /\ year_range = <<InitialLow, InitialHigh>>
    /\ clickData = InitialClickData
    /\ map_fig = InitialMap
    /\ line_fig = EmptyFigure
    /\ map_arg = NotCalled
    /\ line_args = NotCalled
    /\ loaded = FALSE

\* the map callback runs: Output('map', 'figure') from Input('issue', 'value')
RunMakeMap(value) ==
    LET made == make_map(issue, value)
    IN /\ map_fig' = made.fig
       /\ issue' = made.tables
       /\ map_arg' = MapArg(value, map_arg)

\* the line callback runs on the five inputs
RunUpdateLineChart(click_data, iss, ser_lev, res_type, year_input) ==
    /\ \E outcome \in update_line_chart(issue, click_data, iss, ser_lev,
                                        res_type, year_input) :
          line_fig' = outcome
    /\ line_args' = LineArgs(click_data, iss, ser_lev, res_type, year_input)

\* the page is opened: each callback runs once on the initial properties
PageLoad ==
    /\ ~loaded
    /\ loaded' = TRUE
    /\ RunMakeMap(issue_value)
    /\ RunUpdateLineChart(clickData, issue_value, service_level, residence_type,
                          year_range)
    /\ UNCHANGED <<data, issue_value, service_level, residence_type, year_range,
                   clickData>>

SetIssue(v) ==
    /\ loaded /\ v # issue_value
    /\ issue_value' = v
    /\ RunMakeMap(v)
    /\ RunUpdateLineChart(clickData, v, service_level, residence_type, year_range)
    /\ UNCHANGED <<data, service_level, residence_type, year_range, clickData,
                   loaded>>

SetServiceLevel(v) ==
    /\ loaded /\ v # service_level
    /\ service_level' = v
    /\ RunUpdateLineChart(clickData, issue_value, v, residence_type, year_range)
    /\ UNCHANGED <<data, issue, issue_value, residence_type, year_range, clickData,
                   map_fig, map_arg, loaded>>

SetResidenceType(v) ==
    /\ loaded /\ v # residence_type
    /\ residence_type' = v
    /\ RunUpdateLineChart(clickData, issue_value, service_level, v, year_range)
    /\ UNCHANGED <<data, issue, issue_value, service_level, year_range, clickData,
                   map_fig, map_arg, loaded>>

\* one handle of the slider is moved
SetYearRange(v) ==
    /\ loaded /\ v # year_range
    /\ v[1] = year_range[1] \/ v[2] = year_range[2]
    /\ year_range' = v
    /\ RunUpdateLineChart(clickData, issue_value, service_level, residence_type, v)
    /\ UNCHANGED <<data, issue, issue_value, service_level, residence_type,
                   clickData, map_fig, map_arg, loaded>>

\* a click on a region of the map replaces clickData
ClickMap(location) ==
    /\ loaded /\ Click(location) # clickData
    /\ clickData' = Click(location)
    /\ RunUpdateLineChart(Click(location), issue_value, service_level,
                          residence_type, year_range)
    /\ UNCHANGED <<data, issue, issue_value, service_level, residence_type,
                   year_range, map_fig, map_arg, loaded>>

Next ==
    \/ PageLoad
    \/ \E v \in IssueValues : SetIssue(v)
    \/ \E v \in ServiceLevelValues : SetServiceLevel(v)
    \/ \E v \in ResidenceTypeValues : SetResidenceType(v)
    \/ \E v \in YearRanges : SetYearRange(v)
    \/ \E location \in Locations : ClickMap(location)

Spec == Init /\ [][Next]_vars

\* update_line_chart called once as a function, on any arguments
CallUpdateLineChart(click_data, iss, ser_lev, res_type, year_input) ==
    /\ line_args = NotCalled
    /\ RunUpdateLineChart(click_data, iss, ser_lev, res_type, year_input)
    /\ UNCHANGED <<data, issue, issue_value, service_level, residence_type,
                   year_range, clickData, map_fig, map_arg, loaded>>

NextCall ==
    \E click_data \in {NoClick} \cup {Click(l) : l \in Locations},
       iss \in IssueValues, ser_lev \in ServiceLevelValues,
       res_type \in ResidenceTypeValues, year_input \in YearRanges :
        CallUpdateLineChart(click_data, iss, ser_lev, res_type, year_input)

SpecCall == Init /\ [][NextCall]_vars

---------------------------------------------------------------------------
(* Properties *)

LineCalled == line_args # NotCalled

MapCalled == map_arg # NotCalled

\* the tables as they were built at load
LoadedIssue == LoadIssue(LoadData)

\* C1: with no click recorded, update_line_chart returns the empty chart
\* whatever the other four arguments are.
C1_EmptyWithoutClick ==
    (LineCalled /\ line_args.click_data = NoClick) => line_fig = EmptyFigure

\* the years of the dataset's rows for a country
YearsOf(location) ==
    {data.rows[j]["year"].num : j \in {k \in 1..Len(data.rows) :
                                          data.rows[k]["iso3"] = Str(location)}}

\* C2: every row plotted in a returned chart is a row of the clicked country
\* with low <= year <= high, the traces' x values are those rows' years, and
\* no row of the country with a year in the range, bounds included, is missing.
C2_RowsOfCountryInRange ==
    (LineCalled /\ line_fig.kind = "populated") =>
        LET location == line_args.click_data.points[1].location
            low == line_args.year_input[1]
            high == line_args.year_input[2]
            rows == line_fig.frame.rows
        IN /\ \A i \in 1..Len(rows) :
                /\ rows[i]["iso3"] = Str(location)
                /\ low <= rows[i]["year"].num
                /\ rows[i]["year"].num <= high
           /\ \A k \in 1..Len(line_fig.traces) :
                line_fig.traces[k].x = [i \in 1..Len(rows) |-> rows[i]["year"]]
           /\ {rows[i]["year"].num : i \in 1..Len(rows)}
                = {y \in YearsOf(location) : low <= y /\ y <= high}

\* C2's case: a chart whose rows lie on both bounds of the range, while the
\* dataset holds rows of the country outside the range and rows of another
\* country
C2_Witness ==
    /\ LineCalled /\ line_fig.kind = "populated"
    /\ \E i \in 1..Len(line_fig.frame.rows) :
          line_fig.frame.rows[i]["year"].num = line_args.year_input[1]
    /\ \E i \in 1..Len(line_fig.frame.rows) :
          line_fig.frame.rows[i]["year"].num = line_args.year_input[2]
    /\ \E y \in YearsOf(line_args.click_data.points[1].location) :
          y < line_args.year_input[1] \/ y > line_args.year_input[2]
    /\ Len(line_fig.frame.rows) < Len(data.rows)

\* the columns of a returned chart's frame before and after the renaming
SourceColumns == line_fig.source_columns
ChartColumns == line_fig.frame.columns

HasTierToken(col, ser_lev) ==
    \E t \in SeqToSet(services(ser_lev)) : Contains(t, col)

\* C3: for a topic other than gdp the columns kept are iso3, year, country,
\* in that order, followed by exactly the columns of the topic's table that
\* contain a token of the selected tier and end with the selected suffix, so
\* that no kept indicator column ends with one of the other two suffixes.
C3_KeptColumns ==
    (LineCalled /\ line_fig.kind = "populated" /\ line_args.iss # "gdp") =>
        LET table == LoadedIssue[line_args.iss].df.columns
            wanted == {c \in SeqToSet(table) :
                          /\ HasTierToken(c, line_args.ser_lev)
                          /\ EndsWith(c, line_args.res_type)}
        IN /\ SubSeq(SourceColumns, 1, 3) = <<"iso3", "year", "country">>
           /\ {SourceColumns[k] : k \in 4..Len(SourceColumns)} = wanted
           /\ Len(SourceColumns) = 3 + Cardinality(wanted)
           /\ \A k \in 4..Len(SourceColumns) :
                \A suffix \in ResidenceTypes \ {line_args.res_type} :
                    ~EndsWith(SourceColumns[k], suffix)

\* C3's case: the urban suffix is selected, a column is kept, and the table
\* holds a column of the same tier with another suffix, which is left out
C3_Witness ==
    /\ LineCalled /\ line_fig.kind = "populated"
    /\ line_args.iss # "gdp" /\ line_args.res_type = "_u"
    /\ Len(SourceColumns) > 3
    /\ \E c \in SeqToSet(LoadedIssue[line_args.iss].df.columns) :
          /\ HasTierToken(c, line_args.ser_lev)
          /\ EndsWith(c, "_n")
          /\ c \notin SeqToSet(SourceColumns)

\* the measure of a topic: the column at index 3 of its table
Measure(topic) == LoadedIssue[topic].df.columns[4]

MeasureValues(topic) == Column(LoadedIssue[topic].df, Measure(topic))

\* C4: the map is coloured by the column at index 3 of the topic's table; the
\* colour values are the base-10 logarithms of the measure exactly when the
\* topic is gdp and the measure itself otherwise; the gdp hover text shows the
\* display value formatted from the measure before the logarithm.
C4_ColourAndHover ==
    (MapCalled /\ map_fig.kind = "choropleth") =>
        LET topic == map_arg.value
            measure == MeasureValues(topic)
        IN /\ map_fig.color = Measure(topic)
           /\ Len(map_fig.z) = Len(measure)
           /\ \A i \in 1..Len(measure) :
                map_fig.z[i] = IF topic = "gdp" THEN log10(measure[i])
                               ELSE measure[i]
           /\ topic = "gdp" =>
                /\ map_fig.hover_value = 3
                /\ \A i \in 1..Len(measure) :
                      /\ map_fig.customdata[i][3] = try_millify(measure[i], 5)
                      /\ measure[i] \in {Num(100000000), Num(1000000000)} =>
                            map_fig.customdata[i][3] # try_millify(map_fig.z[i], 5)

\* C4's case: a gdp map with a row coloured by 9 whose hover shows 1B
C4_Witness ==
    /\ MapCalled /\ map_fig.kind = "choropleth" /\ map_arg.value = "gdp"
    /\ \E i \in 1..Len(map_fig.z) :
          /\ MeasureValues("gdp")[i] = Num(1000000000)
          /\ map_fig.z[i] = Num(9)
          /\ map_fig.customdata[i][map_fig.hover_value] = Str("1B")

TokensIn(col) == {k \in 1..Len(service_map) : Contains(service_map[k][1], col)}

FirstLabel(col) ==
    IF TokensIn(col) = {} THEN col
    ELSE service_map[CHOOSE k \in TokensIn(col) : \A j \in TokensIn(col) : k <= j][2]

LastLabel(col) ==
    IF TokensIn(col) = {} THEN col
    ELSE service_map[CHOOSE k \in TokensIn(col) : \A j \in TokensIn(col) : k >= j][2]

\* C5, as claimed: every column whose name contains a service_map token is
\* renamed to the label of the first token, in service_map order, that its
\* name contains.
C5_FirstTokenWins ==
    (LineCalled /\ line_fig.kind = "populated") =>
        /\ Len(ChartColumns) = Len(SourceColumns)
        /\ \A k \in 1..Len(SourceColumns) :
              ChartColumns[k] = FirstLabel(SourceColumns[k])

\* C5, amended: every column whose name contains a service_map token is
\* renamed to the label of the last token, in service_map order, that its name
\* contains; a column that contains none keeps its name.
C5_LastTokenWins ==
    (LineCalled /\ line_fig.kind = "populated") =>
        /\ Len(ChartColumns) = Len(SourceColumns)
        /\ \A k \in 1..Len(SourceColumns) :
              ChartColumns[k] = LastLabel(SourceColumns[k])

\* C5's case: a chart with a column whose name contains two tokens, renamed to
\* the label of the later one
C5_Witness ==
    /\ LineCalled /\ line_fig.kind = "populated"
    /\ \E k \in 1..Len(SourceColumns) :
          /\ Cardinality(TokensIn(SourceColumns[k])) >= 2
          /\ FirstLabel(SourceColumns[k]) # LastLabel(SourceColumns[k])
          /\ ChartColumns[k] = LastLabel(SourceColumns[k])

\* C6: no callback changes the dataset or a table of `issue`: they stay as
\* loaded, and make_map('gdp') returns the figure of the loaded table however
\* often it has run, its colours the logarithms of the loaded gdp values.
C6_TablesAsLoaded ==
    /\ data = LoadData
    /\ issue = LoadedIssue
    /\ (MapCalled /\ map_arg.value = "gdp") =>
          /\ map_fig = make_map(LoadedIssue, "gdp").fig
          /\ map_fig.kind = "choropleth"
          /\ \A i \in 1..Len(map_fig.z) :
                map_fig.z[i] = log10(LoadData.rows[i]["gdp"])

\* C6's case: make_map('gdp') has run at least twice, and the line callback
\* has drawn a chart from the same tables
C6_Witness ==
    /\ MapCalled /\ map_arg.value = "gdp" /\ map_arg.gdp_before
    /\ map_fig.kind = "choropleth"
    /\ LineCalled /\ line_fig.kind = "populated"

C8_FormatterNeverRaises ==
    (MapCalled /\ map_arg.value \in Topics) =>
        /\ map_fig.kind = "choropleth"
        /\ \A i \in 1..Len(map_fig.customdata) :
              LET measure == MeasureValues(map_arg.value)[i]
                  shown == map_fig.customdata[i][3]
              IN /\ shown # Raised
                 /\ MillifyFails(measure, 5) => shown = measure
                 /\ ~MillifyFails(measure, 5) =>
                       shown = millify(measure, 5) /\ DOMAIN shown = {"str"}

\* C8's case: a map with a row whose measure cannot be formatted and is shown
\* as it is, and a row shown shortened
C8_Witness ==
    /\ MapCalled /\ map_arg.value = "gdp" /\ map_fig.kind = "choropleth"
    /\ \E i \in 1..Len(map_fig.customdata) :
          /\ MeasureValues("gdp")[i] = NaN
          /\ map_fig.customdata[i][3] = NaN
    /\ \E i \in 1..Len(map_fig.customdata) :
          /\ MeasureValues("gdp")[i] = Num(1250000000)
          /\ map_fig.customdata[i][3] = Str("1.25B")

ValidSelection ==
    /\ LineCalled
    /\ line_args.click_data # NoClick
    /\ line_args.iss \in Topics
    /\ line_args.ser_lev \in ServiceLevels
    /\ line_args.res_type \in ResidenceTypes

\* C9: with a click recorded and no row of the clicked country in the year
\* range, update_line_chart returns no chart, empty or populated: it raises.
C9_EmptySelectionFaults ==
    (/\ ValidSelection
     /\ \A y \in YearsOf(line_args.click_data.points[1].location) :
           y < line_args.year_input[1] \/ y > line_args.year_input[2])
        => /\ line_fig.kind = "fault"
           /\ line_fig.kind \notin {"empty", "populated"}

\* C9's case: the clicked country has rows, none of them in the range, and
\* the title lookup has raised
C9_Witness ==
    /\ ValidSelection
    /\ YearsOf(line_args.click_data.points[1].location) # {}
    /\ \A y \in YearsOf(line_args.click_data.points[1].location) :
          y < line_args.year_input[1] \/ y > line_args.year_input[2]
    /\ line_fig = Fault("IndexError", 310)

\* C10: click data is present in every state of the page, every invocation
\* of update_line_chart gets it, and none returns the empty chart.
C10_ClickAlwaysPresent ==
    /\ clickData # NoClick
    /\ LineCalled => /\ line_args.click_data # NoClick
                     /\ line_args.click_data = clickData
                     /\ line_fig # EmptyFigure

\* C10's case: after a click on another country the chart is that country's
C10_Witness ==
    /\ loaded /\ LineCalled
    /\ clickData = Click("KEN")
    /\ line_fig.kind = "populated"
    /\ \A i \in 1..Len(line_fig.frame.rows) :
          line_fig.frame.rows[i]["iso3"] = Str("KEN")

=============================================================================
